---- MODULE Spec2Model ----
(***************************************************************************)
(* The lowering stage of the Ferret compiler (compile.js): compileProgram  *)
(* registers the definitions, runs one FunctionCompiler per definition     *)
(* over its statement list, and lays the constant pool out in memory.      *)
(*                                                                         *)
(* The AST is the input.  The definitions' signatures are drawn in Init;   *)
(* the statement list of a definition is read strictly left to right by    *)
(* the loop of compileFunction, so each statement is drawn when the loop   *)
(* reaches it and is recorded in definitions[fn].lines.                    *)
(***************************************************************************)
EXTENDS Integers, Sequences, FiniteSets, TLC

\* Bounds of the input domain.
\* A program of one definition has at most MaxLines statements, drawn from
\* Statement; a program of several (at most MaxDefs) definitions has at most
\* MaxProgLines statements per definition, drawn from ProgStatement.
MaxLines == 3
MaxDefs == 2
MaxProgLines == 2
\* In the expression suite a program of one definition has at most MaxExprLines
\* statements, drawn from ExprStatement; a program of several definitions has
\* at most MaxProgLines statements per definition, drawn from CallStatement.
MaxExprLines == 2

VARIABLES
    suite,              \* which statements the input is drawn from: "stmt" or "expr"
    definitions,        \* ast.definitions: <<[identifier, inTypes, outType, lines]>>
    pc,                 \* where compileProgram is
    defMap,             \* the identifiers registered so far (keys of defMap)
    constants,          \* the shared Constants: [data, symbols]
    compiledFunctions,  \* the Function IRs returned so far
    fn,                 \* index of the definition being registered / compiled
    locals,             \* FunctionCompiler.locals
    registerCounter,    \* FunctionCompiler.registerCounter
    blocks,             \* compileFunction: blocks
    visitedLabels,      \* compileFunction: visitedLabels
    currentBlock,       \* compileFunction: currentBlock
    hasPrevBlock,       \* compileFunction: hasPrevBlock
    blockTerminated,    \* compileFunction: blockTerminated
    result,             \* <<Program IR>> once compileProgram has returned, else <<>>
    error               \* the message of the Error thrown, "" if none

vars == <<suite, definitions, pc, defMap, constants, compiledFunctions, fn, locals,
          registerCounter, blocks, visitedLabels, currentBlock, hasPrevBlock,
          blockTerminated, result, error>>

----------------------------------------------------------------------------
(* The AST, in the shape compile.js reads it.  A JavaScript string leaf    *)
(* (typeof x === 'string') is the record text(s); a string constant is the *)
(* sequence of its UTF-16 code units.                                      *)

text(s) == [type |-> "text", value |-> s]
IsString(node) == node.type = "text"

Name(s) == [type |-> "rvalue", value |-> text(s)]
NumberLit(n) ==
    [type |-> "rvalue",
     value |-> [type |-> "literal", value |-> [type |-> "number", value |-> n]]]
StringLit(s) ==
    [type |-> "rvalue",
     value |-> [type |-> "literal", value |-> [type |-> "string", value |-> s]]]
NulLit == [type |-> "rvalue", value |-> [type |-> "literal", value |-> text("\\NUL")]]
DerefRvalue(rv) == [type |-> "rvalue", value |-> [type |-> "DerefExpr", value |-> rv]]

Expr(node) == [type |-> "Expr", value |-> node]
DerefExpr(e) == [type |-> "DerefExpr", value |-> e]
BinExpr(t, a, b) == [type |-> t, op1 |-> a, op2 |-> b]
CallExpr(id, args) == [type |-> "CallExpr", identifier |-> id, args |-> args]

derefLvalue(lv) == [type |-> "derefLvalue", value |-> lv]

labelDef(v) == [type |-> "labelDef", value |-> v]
Assignment(lv, e) == [type |-> "Assignment", lvalue |-> lv, expr |-> e]
PtrAssignment(lv, e) == [type |-> "PtrAssignment", lvalue |-> lv, expr |-> e]
Return(v) == [type |-> "Return", value |-> v]
Branch(c, l1, l2) == [type |-> "Branch", condition |-> c, label1 |-> l1, label2 |-> l2]
Write(d, l) == [type |-> "Write", data |-> d, length |-> l]

\* String constants: "hi", and one character above 255 (U+20AC).  The grammar's
\* string rule matches one character or more, so constants are non-empty.
Hi == <<104, 105>>
Euro == <<8364>>

\* The statements of a one-definition program.
Statement ==
    << labelDef("a"),
       labelDef("b"),
       labelDef("init"),
       labelDef("init1"),
       Assignment(text("x"), Expr(BinExpr("AddExpr", NumberLit("1"), NumberLit("2")))),
       Return(NumberLit("0")),
       Branch(Name("x"), "a", "b"),
       Branch(Name("x"), "init", "init"),
       Expr(CallExpr("g", <<Name("x")>>)),
       Write(StringLit(Hi), NumberLit("2")),
       Assignment(derefLvalue(text("x")), Expr(DerefExpr(Name("y")))),
       PtrAssignment(derefLvalue(text("p")), NulLit),
       Expr(DerefExpr(Expr(DerefExpr(Name("p"))))),
       Return(DerefRvalue(Name("x"))) >>

\* The statements of a program of several definitions.
ProgStatement ==
    << labelDef("a"),
       Branch(Name("x"), "a", "a"),
       Assignment(text("x"), Expr(BinExpr("AddExpr", StringLit(Hi), StringLit(Euro)))) >>

\* The statements of a one-definition program of the expression suite.  The
\* operands of the EqExpr are expressions themselves: compileExpr lowers any
\* node as an operand, the grammar writes rvalues only.
ExprStatement ==
    << Expr(BinExpr("SubExpr", StringLit(Hi), StringLit(Euro))),
       Expr(BinExpr("EqExpr", Expr(DerefExpr(Name("a"))), Expr(DerefExpr(Name("b"))))),
       Expr(CallExpr("f", <<StringLit(Hi), DerefRvalue(Name("x")), StringLit(Euro)>>)),
       Expr(CallExpr("toString", <<Name("x")>>)),
       Write(StringLit(Hi), StringLit(Euro)),
       Assignment(derefLvalue(text("q")), NumberLit("1")),
       Assignment(derefLvalue(derefLvalue(text("q"))), Expr(DerefExpr(Name("y")))),
       PtrAssignment(derefLvalue(text("q")), NumberLit("1")),
       Expr(DerefExpr(Expr(DerefExpr(Name("p"))))),
       Return(DerefRvalue(DerefRvalue(Name("x")))),
       Branch(DerefRvalue(Name("c")), "init", "init") >>

\* The statements of a program of several definitions of the expression suite.
CallStatement ==
    << Expr(CallExpr("f", <<Name("x")>>)),
       Expr(CallExpr("main", <<Name("x")>>)) >>

\* The signatures a program's definitions are drawn from.
Signature ==
    << [identifier |-> "main", inTypes |-> <<>>, outType |-> "u8", lines |-> <<>>],
       [identifier |-> "f", inTypes |-> <<"u8">>, outType |-> "u8", lines |-> <<>>],
       [identifier |-> "g", inTypes |-> <<"u8", "u8">>, outType |-> "u8", lines |-> <<>>],
       [identifier |-> "toString", inTypes |-> <<>>, outType |-> "u8", lines |-> <<>>] >>

Programs ==
    UNION { [1..n -> {Signature[k] : k \in 1..Len(Signature)}] : n \in 1..MaxDefs }

Pool ==
    IF suite = "expr"
    THEN (IF Len(definitions) = 1 THEN ExprStatement ELSE CallStatement)
    ELSE (IF Len(definitions) = 1 THEN Statement ELSE ProgStatement)
LineBound ==
    IF Len(definitions) > 1 THEN MaxProgLines
    ELSE IF suite = "expr" THEN MaxExprLines ELSE MaxLines

----------------------------------------------------------------------------
(* Error messages *)

DuplicateDefinition(identifier) ==
    "Duplicate definition of function \"" \o identifier \o "\""
UndefinedFunction(identifier) ==
    "Call to undefined function \"" \o identifier \o "\""
UnsupportedExpression(type) == "Cannot compile expression of type " \o type
UnknownStatement(type) == "Unknown AST node type: " \o type
DuplicateLabel(labelName) == "Duplicate label '" \o labelName \o "'"
FallthroughBlock(label) == "Block \"" \o label \o "\" falls through"
UnreachableCode(label) ==
    "Unreachable code after control flow in block \"" \o label \o "\""
DanglingLabel(successor) == "Label to nonexistent block \"" \o successor \o "\""

----------------------------------------------------------------------------
(* Block and Constants *)

\* The properties an object literal {} inherits from Object.prototype.
ObjectPrototype ==
    {"constructor", "hasOwnProperty", "isPrototypeOf", "propertyIsEnumerable",
     "toLocaleString", "toString", "valueOf", "__defineGetter__",
     "__defineSetter__", "__lookupGetter__", "__lookupSetter__", "__proto__"}

\* key in object: an own property or an inherited one.
In(key, object) == key \in object \cup ObjectPrototype

Block(label) == [label |-> label, instructions |-> <<>>, successors |-> <<>>]

NewConstants == [data |-> <<>>, symbols |-> <<>>]

\* The state the lowering of one statement works on: the FunctionCompiler's
\* fields, the block it appends to, the shared constants, and the error thrown.
Thrown(c) == c.error # ""
Throw(c, message) == [c EXCEPT !.error = message]

storeDedup(c, constant) ==
    LET found == {k \in 1..Len(c.constants.data) : c.constants.data[k] = constant}
    IN IF found # {}
       THEN [c |-> c, ret |-> c.constants.symbols[CHOOSE k \in found : TRUE]]
       ELSE LET data == Append(c.constants.data, constant)
                symbol == "@." \o ToString(Len(data) - 1)
            IN [c |-> [c EXCEPT !.constants =
                          [data |-> data, symbols |-> Append(@.symbols, symbol)]],
                ret |-> symbol]

store(c, constant) ==
    LET data == Append(c.constants.data, constant)
        symbol == "@." \o ToString(Len(data) - 1)
    IN [c |-> [c EXCEPT !.constants =
                  [data |-> data, symbols |-> Append(@.symbols, symbol)]],
        ret |-> symbol]

nextRegisterPreIncrement(c) ==
    [c |-> [c EXCEPT !.registerCounter = @ + 1],
     ret |-> "%" \o ToString(c.registerCounter + 1)]

nextRegister(c) ==
    [c |-> [c EXCEPT !.registerCounter = @ + 1],
     ret |-> "%" \o ToString(c.registerCounter)]

pushFront(c, instruction) ==
    [c EXCEPT !.block.instructions = <<instruction>> \o @]
push(c, instruction) ==
    [c EXCEPT !.block.instructions = Append(@, instruction)]

compileLiteral(value, c) ==
    IF IsString(value) /\ value.value = "\\NUL" THEN [c |-> c, ret |-> "0"]
    ELSE IF value.type = "number" THEN [c |-> c, ret |-> value.value]
    ELSE store(c, value.value)

instructionMap ==
    [AddExpr |-> "ADD", SubExpr |-> "SUB", MulExpr |-> "MUL",
     DivExpr |-> "DIV", EqExpr |-> "EQ"]

RECURSIVE compileExpr(_, _)
RECURSIVE compileArgs(_, _)

\* value.args.map(arg => this.compileExpr(arg, block))
compileArgs(args, c) ==
    IF Len(args) = 0 THEN [c |-> c, ret |-> <<>>]
    ELSE LET head == compileExpr(Head(args), c)
         IN IF Thrown(head.c) THEN [c |-> head.c, ret |-> <<>>]
            ELSE LET tail == compileArgs(Tail(args), head.c)
                 IN [c |-> tail.c, ret |-> <<head.ret>> \o tail.ret]

compileExpr(expr, c) ==
    LET value == IF expr.type = "rvalue" THEN expr ELSE expr.value
    IN CASE value.type = "DerefExpr" ->
              LET evaled == compileExpr(value.value, c)
                  register == nextRegister(evaled.c)
              IN IF Thrown(evaled.c) THEN evaled
                 ELSE [c |-> push(register.c, <<"LOAD", evaled.ret, register.ret>>),
                       ret |-> register.ret]
         [] value.type \in DOMAIN instructionMap ->
              LET op1 == compileExpr(value.op1, c)
                  op2 == compileExpr(value.op2, op1.c)
                  register == nextRegister(op2.c)
              IN IF Thrown(op1.c) THEN op1
                 ELSE IF Thrown(op2.c) THEN op2
                 ELSE [c |-> push(register.c,
                                  <<instructionMap[value.type], op1.ret, op2.ret,
                                    register.ret>>),
                       ret |-> register.ret]
         [] value.type = "CallExpr" ->
              LET compiledArgs == compileArgs(value.args, c)
                  register == nextRegister(compiledArgs.c)
              IN IF Thrown(compiledArgs.c) THEN [c |-> compiledArgs.c, ret |-> ""]
                 ELSE IF ~In(value.identifier, defMap)
                 THEN [c |-> Throw(register.c, UndefinedFunction(value.identifier)),
                       ret |-> ""]
                 ELSE [c |-> push(register.c,
                                  <<"CALL", value.identifier, register.ret>>
                                      \o compiledArgs.ret),
                       ret |-> register.ret]
         [] value.type = "rvalue" ->
              IF IsString(value.value) THEN [c |-> c, ret |-> value.value.value]
              ELSE IF value.value.type = "literal"
              THEN compileLiteral(value.value.value, c)
              ELSE compileExpr(value.value.value, c)
         [] OTHER -> [c |-> Throw(c, UnsupportedExpression(value.type)), ret |-> ""]

RECURSIVE compileDerefLvalueUnchecked(_, _)
compileDerefLvalueUnchecked(lvalue, c) ==
    IF IsString(lvalue)
    THEN [c |-> [c EXCEPT !.locals = Append(@, lvalue.value)],
          ret |-> lvalue.value]
    ELSE LET register == compileDerefLvalueUnchecked(lvalue.value, c)
             storeRegister == nextRegister(register.c)
         IN [c |-> push(storeRegister.c, <<"LOAD", register.ret, storeRegister.ret>>),
             ret |-> storeRegister.ret]

RECURSIVE compileDerefLvalue(_, _)
compileDerefLvalue(lvalue, c) ==
    IF IsString(lvalue)
    THEN [c |-> IF \E k \in 1..Len(c.locals) : c.locals[k] = lvalue.value
                THEN c
                ELSE [c EXCEPT !.locals = Append(@, lvalue.value)],
          ret |-> lvalue.value]
    ELSE LET register == compileDerefLvalue(lvalue.value, c)
             storeRegister == nextRegister(register.c)
         IN [c |-> push(storeRegister.c, <<"LOAD", register.ret, storeRegister.ret>>),
             ret |-> storeRegister.ret]

compileAssignment(assignment, c) ==
    LET resultRegister == compileExpr(assignment.expr, c)
    IN IF Thrown(resultRegister.c) THEN resultRegister.c
       ELSE IF IsString(assignment.lvalue)
       THEN push(resultRegister.c,
                 <<"MOV", resultRegister.ret, assignment.lvalue.value>>)
       ELSE LET addrRegister ==
                    compileDerefLvalue(assignment.lvalue.value, resultRegister.c)
            IN push(addrRegister.c, <<"STORE", addrRegister.ret, resultRegister.ret>>)

compilePtrAssignmentPeeled(assignment, c) == compileAssignment(assignment, c)
compilePtrAssignment(assignment, c) ==
    LET resultRegister == compileExpr(assignment.expr, c)
    IN IF Thrown(resultRegister.c) THEN resultRegister.c
       ELSE LET addrRegister == compileDerefLvalue(assignment.lvalue, resultRegister.c)
            IN push(addrRegister.c, <<"STORE", addrRegister.ret, resultRegister.ret>>)

compileReturn(ret, c) ==
    LET value == compileExpr(ret.value, c)
    IN IF Thrown(value.c) THEN value.c ELSE push(value.c, <<"RET", value.ret>>)

compileBranchNoSuccessors(branch, c) ==
    LET register == compileExpr(branch.condition, c)
    IN IF Thrown(register.c) THEN register.c
       ELSE push(register.c, <<"BR", register.ret, branch.label1, branch.label2>>)

compileBranch(branch, c) ==
    LET c1 == [c EXCEPT !.block.successors = @ \o <<branch.label1, branch.label2>>]
        register == compileExpr(branch.condition, c1)
    IN IF Thrown(register.c) THEN register.c
       ELSE push(register.c, <<"BR", register.ret, branch.label1, branch.label2>>)

compileWriteLengthFirst(write, c) ==
    LET length == compileExpr(write.length, c)
        data == compileExpr(write.data, length.c)
    IN IF Thrown(length.c) THEN length.c
       ELSE IF Thrown(data.c) THEN data.c
       ELSE push(data.c, <<"WRITE", data.ret, length.ret>>)

compileWrite(write, c) ==
    LET data == compileExpr(write.data, c)
        length == compileExpr(write.length, data.c)
    IN IF Thrown(data.c) THEN data.c
       ELSE IF Thrown(length.c) THEN length.c
       ELSE push(length.c, <<"WRITE", data.ret, length.ret>>)

terminatesReturnOnly(line) == line.type = "Return"
\* compileLine's result: true if this line terminates a block.
terminates(line) == line.type = "Branch" \/ line.type = "Return"

\* Returns the state after the line and whether the line terminates a block.
compileLine(line, c) ==
    LET after ==
            CASE line.type = "Assignment" -> compileAssignment(line, c)
              [] line.type = "PtrAssignment" -> compilePtrAssignment(line, c)
              [] line.type = "Return" -> compileReturn(line, c)
              [] line.type = "Branch" -> compileBranch(line, c)
              [] line.type = "Write" -> compileWrite(line, c)
              [] line.type = "Expr" -> compileExpr(line, c).c
              [] OTHER -> Throw(c, UnknownStatement(line.type))
    IN [c |-> after, ret |-> terminates(line)]

----------------------------------------------------------------------------
(* Constants.compile *)

ToUint8NoWrap(code) == code
\* A store into a Uint8Array keeps the value modulo 2^8.
ToUint8(code) == code % 256

RECURSIVE totalLength(_)
totalLength(data) ==
    IF Len(data) = 0 THEN 0 ELSE Len(Head(data)) + totalLength(Tail(data))

\* The inner loop: memory[ptr++] = string.charCodeAt(j), j from 0.
RECURSIVE writeString(_, _, _, _)
writeString(memory, ptr, string, j) ==
    IF j >= Len(string) THEN [memory |-> memory, ptr |-> ptr]
    ELSE writeString([memory EXCEPT ![ptr + 1] = ToUint8(string[j + 1])],
                     ptr + 1, string, j + 1)

\* The outer loop over this.data, i from 0.
RECURSIVE compileLoop(_, _, _, _, _)
compileLoop(cs, i, ptr, memory, offsets) ==
    IF i >= Len(cs.data) THEN [memory |-> memory, offsets |-> offsets]
    ELSE LET string == cs.data[i + 1]
             symbol == cs.symbols[i + 1]
             written == writeString(memory, ptr, string, 0)
         IN compileLoop(cs, i + 1, written.ptr, written.memory,
                        [s \in DOMAIN offsets \cup {symbol} |->
                            IF s = symbol THEN ptr ELSE offsets[s]])

compileAllButLast(cs) ==
    compileLoop([cs EXCEPT !.data = SubSeq(@, 1, Len(@) - 1)], 0, 0,
                [k \in 1..totalLength(cs.data) |-> 0], [s \in {} |-> 0])
\* memory is 0-based in the code: memory[k] of the code is memory[k + 1] here.
compile(cs) ==
    compileLoop(cs, 0, 0, [k \in 1..totalLength(cs.data) |-> 0], [s \in {} |-> 0])

----------------------------------------------------------------------------
(* compileProgram *)

Start ==
    /\ definitions \in Programs
    /\ pc = "defMap"
    /\ defMap = {}
    /\ constants = NewConstants
    /\ compiledFunctions = <<>>
    /\ fn = 1
    /\ locals = <<>>
    /\ registerCounter = 0
    /\ blocks = <<>>
    /\ visitedLabels = {}
    /\ currentBlock = Block("init")
    /\ hasPrevBlock = FALSE
    /\ blockTerminated = FALSE
    /\ result = <<>>
    /\ error = ""

Init == suite = "stmt" /\ Start

InitExpr == suite = "expr" /\ Start

functionVars == <<locals, registerCounter, blocks, visitedLabels, currentBlock,
                  hasPrevBlock, blockTerminated>>

\* One iteration of the loop that fills defMap.
DefineFunction ==
    /\ pc = "defMap"
    /\ fn <= Len(definitions)
    /\ LET identifier == definitions[fn].identifier
       IN IF In(identifier, defMap)
          THEN /\ error' = DuplicateDefinition(identifier)
               /\ pc' = "thrown"
               /\ UNCHANGED <<defMap, fn>>
          ELSE /\ defMap' = defMap \cup {identifier}
               /\ fn' = fn + 1
               /\ UNCHANGED <<error, pc>>
    /\ UNCHANGED <<suite, definitions, constants, compiledFunctions, functionVars,
                   result>>

\* The loop is over: definitions.map starts with the first definition.
StartLowering ==
    /\ pc = "defMap"
    /\ fn > Len(definitions)
    /\ pc' = "new"
    /\ fn' = 1
    /\ UNCHANGED <<suite, definitions, defMap, constants, compiledFunctions,
                   functionVars, result, error>>

\* new FunctionCompiler(def, constants, defMap), and the head of compileFunction.
NewFunctionCompiler ==
    /\ pc = "new"
    /\ fn <= Len(definitions)
    /\ locals' = <<>>
    /\ registerCounter' = Len(definitions[fn].inTypes)
    /\ blocks' = <<>>
    /\ visitedLabels' = {}
    /\ currentBlock' = Block("init")
    /\ hasPrevBlock' = FALSE
    /\ blockTerminated' = FALSE
    /\ pc' = "lines"
    /\ UNCHANGED <<suite, definitions, defMap, constants, compiledFunctions, fn,
                   result, error>>

labelNameNoRemap(value) == value
\* const labelName = line.value === 'init' ? 'init1' : line.value
labelName(value) == IF value = "init" THEN "init1" ELSE value

fallsThroughInverted(terminated, hasPrev) == terminated /\ hasPrev
\* The guard of the fall-through error.
fallsThrough(terminated, hasPrev) == ~terminated /\ hasPrev

Lowering ==
    [block |-> currentBlock, registerCounter |-> registerCounter, locals |-> locals,
     constants |-> constants, error |-> ""]

\* One iteration of the loop over lines, on the statement `line`.
CompileStatement(line) ==
    IF line.type = "labelDef"
    THEN LET name == labelName(line.value)
         IN IF name \in visitedLabels
            THEN /\ error' = DuplicateLabel(name)
                 /\ pc' = "thrown"
                 /\ UNCHANGED <<functionVars, constants>>
            ELSE IF fallsThrough(blockTerminated, hasPrevBlock)
            THEN /\ error' = FallthroughBlock(currentBlock.label)
                 /\ pc' = "thrown"
                 /\ visitedLabels' = visitedLabels \cup {name}
                 /\ UNCHANGED <<locals, registerCounter, blocks, currentBlock,
                                hasPrevBlock, blockTerminated, constants>>
            ELSE /\ visitedLabels' = visitedLabels \cup {name}
                 /\ blocks' = Append(blocks, currentBlock)
                 /\ currentBlock' = Block(name)
                 /\ hasPrevBlock' = TRUE
                 /\ blockTerminated' = FALSE
                 /\ UNCHANGED <<locals, registerCounter, constants, pc, error>>
    ELSE IF blockTerminated
    THEN /\ error' = UnreachableCode(currentBlock.label)
         /\ pc' = "thrown"
         /\ UNCHANGED <<functionVars, constants>>
    ELSE LET compiled == compileLine(line, Lowering)
         IN /\ currentBlock' = compiled.c.block
            /\ registerCounter' = compiled.c.registerCounter
            /\ locals' = compiled.c.locals
            /\ constants' = compiled.c.constants
            /\ IF Thrown(compiled.c)
               THEN /\ error' = compiled.c.error
                    /\ pc' = "thrown"
                    /\ UNCHANGED blockTerminated
               ELSE /\ blockTerminated' = (blockTerminated \/ compiled.ret)
                    /\ UNCHANGED <<pc, error>>
            /\ UNCHANGED <<blocks, visitedLabels, hasPrevBlock>>

\* The loop reads lines[i]: the next statement of the definition.
CompileLine ==
    /\ pc = "lines"
    /\ Len(definitions[fn].lines) < LineBound
    /\ \E k \in 1..Len(Pool) :
          /\ definitions' = [definitions EXCEPT ![fn].lines = Append(@, Pool[k])]
          /\ CompileStatement(Pool[k])
    /\ UNCHANGED <<suite, defMap, compiledFunctions, fn, result>>

\* The successors that name no block, in the order the post-pass meets them.
RECURSIVE Flatten(_)
Flatten(seqs) == IF Len(seqs) = 0 THEN <<>> ELSE Head(seqs) \o Flatten(Tail(seqs))

Successors(bs) == Flatten([k \in 1..Len(bs) |-> bs[k].successors])

DanglingUnchecked(bs) == <<>>
Dangling(bs) ==
    SelectSeq(Successors(bs), LAMBDA s : ~(\E k \in 1..Len(bs) : bs[k].label = s))

\* i = lines.length: the end of the loop, the post-pass and the return.
FinishFunction ==
    /\ pc = "lines"
    /\ LET last == IF ~blockTerminated
                   THEN [currentBlock EXCEPT !.instructions = Append(@, <<"RET", "0">>)]
                   ELSE currentBlock
           all == Append(blocks, last)
       IN /\ currentBlock' = last
          /\ blocks' = all
          /\ IF Dangling(all) # <<>>
             THEN /\ error' = DanglingLabel(Head(Dangling(all)))
                  /\ pc' = "thrown"
                  /\ UNCHANGED <<compiledFunctions, fn>>
             ELSE /\ compiledFunctions' =
                        Append(compiledFunctions,
                               [identifier |-> definitions[fn].identifier,
                                inTypes |-> definitions[fn].inTypes,
                                outType |-> definitions[fn].outType,
                                blocks |-> all,
                                locals |-> locals])
                  /\ fn' = fn + 1
                  /\ pc' = "new"
                  /\ UNCHANGED error
    /\ UNCHANGED <<suite, definitions, defMap, constants, locals, registerCounter,
                   visitedLabels, hasPrevBlock, blockTerminated, result>>

entryPointFirst(functions) ==
    IF functions = <<>> THEN <<>> ELSE <<functions[1]>>
entryPoint(functions) ==
    LET found == {k \in 1..Len(functions) : functions[k].identifier = "main"}
    IN IF found = {} THEN <<>>
       ELSE <<functions[CHOOSE k \in found : \A j \in found : k <= j]>>

\* Every definition is compiled: the Program IR is built and returned.
ReturnProgram ==
    /\ pc = "new"
    /\ fn > Len(definitions)
    /\ result' = << [functions |-> compiledFunctions,
                     entryPoint |-> entryPoint(compiledFunctions),
                     constants |-> compile(constants)] >>
    /\ pc' = "done"
    /\ UNCHANGED <<suite, definitions, defMap, constants, compiledFunctions, fn,
                   functionVars, error>>

Next ==
    \/ DefineFunction
    \/ StartLowering
    \/ NewFunctionCompiler
    \/ CompileLine
    \/ FinishFunction
    \/ ReturnProgram

Spec == Init /\ [][Next]_vars

SpecExpr == InitExpr /\ [][Next]_vars

----------------------------------------------------------------------------
(* The input as the claims speak of it: the statements of a definition,    *)
(* its label definitions, the block a statement belongs to.                *)

Lines(d) == definitions[d].lines
IsLabel(line) == line.type = "labelDef"
IsTerminator(line) == line.type \in {"Return", "Branch"}

\* "init" becomes "init1", every other name is itself.
Remapped(v) == IF v = "init" THEN "init1" ELSE v

\* The index of the last label definition before statement k (0: none).
PrevLabel(ls, k) ==
    LET before == {j \in 1..(k - 1) : IsLabel(ls[j])}
    IN IF before = {} THEN 0 ELSE CHOOSE j \in before : \A i \in before : i <= j

\* The label of the block statement k is in (or, for a label, closes).
BlockOf(ls, k) ==
    IF PrevLabel(ls, k) = 0 THEN "init" ELSE Remapped(ls[PrevLabel(ls, k)].value)

\* The block open before statement k holds a Return or a Branch.
TerminatedBefore(ls, k) ==
    \E m \in (PrevLabel(ls, k) + 1)..(k - 1) : IsTerminator(ls[m])

\* The compilation threw while handling the last statement read of definition d.
ThrownAt(d, k) ==
    /\ pc = "thrown"
    /\ d = fn
    /\ Len(Lines(d)) = k
    /\ Len(compiledFunctions) = d - 1
    /\ result = <<>>

Compiled == 1..Len(compiledFunctions)

LastOf(seq) == seq[Len(seq)]

----------------------------------------------------------------------------
\* C1: every block of every returned block list is non-empty and ends in a
\* RET or a BR, the entry block "init" included.
C1_EveryBlockTerminated ==
    \A d \in Compiled :
        \A b \in 1..Len(compiledFunctions[d].blocks) :
            LET instructions == compiledFunctions[d].blocks[b].instructions
            IN /\ Len(instructions) > 0
               /\ LastOf(instructions)[1] \in {"RET", "BR"}

\* C2: when the first label definition is reached and "init" has received
\* statements but no Return or Branch, the compilation fails with the
\* fall-through error naming "init" and returns no function IR.
C2_InitFallsThrough ==
    \A d \in 1..Len(definitions) :
        \A k \in 2..Len(Lines(d)) :
            (/\ IsLabel(Lines(d)[k])
             /\ PrevLabel(Lines(d), k) = 0
             /\ ~TerminatedBefore(Lines(d), k))
            => (ThrownAt(d, k) /\ error = FallthroughBlock("init"))

\* C3 as stated: a label definition processed while a labelled block is open
\* and unterminated fails with FallthroughBlock naming that block, whatever
\* the new label's name is.
C3_FallthroughWhateverTheLabel ==
    \A d \in 1..Len(definitions) :
        \A k \in 1..Len(Lines(d)) :
            (/\ IsLabel(Lines(d)[k])
             /\ PrevLabel(Lines(d), k) > 0
             /\ ~TerminatedBefore(Lines(d), k))
            => (ThrownAt(d, k) /\ error = FallthroughBlock(BlockOf(Lines(d), k)))

\* The remapped name of label definition k was defined earlier in the function.
DefinedEarlier(ls, k) ==
    \E j \in 1..(k - 1) : IsLabel(ls[j]) /\ Remapped(ls[j].value) = Remapped(ls[k].value)

\* C3 amended: a label definition processed while a labelled block is open and
\* unterminated makes the compilation fail and return no function IR, with
\* FallthroughBlock naming that block when the new label's remapped name was
\* not defined earlier in the function, and with DuplicateLabel naming the new
\* remapped name when it was.
C3_Fallthrough ==
    \A d \in 1..Len(definitions) :
        \A k \in 1..Len(Lines(d)) :
            (/\ IsLabel(Lines(d)[k])
             /\ PrevLabel(Lines(d), k) > 0
             /\ ~TerminatedBefore(Lines(d), k))
            => /\ ThrownAt(d, k)
               /\ error = IF DefinedEarlier(Lines(d), k)
                          THEN DuplicateLabel(Remapped(Lines(d)[k].value))
                          ELSE FallthroughBlock(BlockOf(Lines(d), k))

C3_Witness ==
    /\ pc = "thrown"
    /\ Len(Lines(fn)) = 3
    /\ IsLabel(Lines(fn)[1])
    /\ ~IsLabel(Lines(fn)[2])
    /\ IsLabel(Lines(fn)[3])
    /\ Lines(fn)[1].value = "init"
    /\ error = FallthroughBlock("init1")

\* C4: a non-label statement read after a Return or Branch of the same block
\* makes the compilation fail with UnreachableCode naming the current block,
\* and the statement is not lowered: no instruction is appended, no register
\* and no constant is allocated.
C4_Unreachable ==
    [][ LET after == definitions'[fn].lines
        IN (/\ pc = "lines"
            /\ after # Lines(fn)
            /\ ~IsLabel(LastOf(after))
            /\ TerminatedBefore(after, Len(after)))
           => (/\ pc' = "thrown"
               /\ error' = UnreachableCode(BlockOf(after, Len(after)))
               /\ result' = <<>>
               /\ UNCHANGED <<currentBlock, blocks, registerCounter, locals,
                              constants, compiledFunctions>>) ]_vars

C4_Witness ==
    /\ pc = "thrown"
    /\ Len(Lines(fn)) = 3
    /\ IsLabel(Lines(fn)[1])
    /\ Lines(fn)[2].type = "Branch"
    /\ Lines(fn)[3].type = "Write"
    /\ error = UnreachableCode("a")
    /\ constants.data = <<>>

\* C5: a label definition whose remapped name equals that of an earlier label
\* definition of the same function fails with DuplicateLabel naming the
\* remapped name; the block labels of a returned function, "init" included,
\* are pairwise distinct; DuplicateLabel is thrown for no other reason, so a
\* name used in two functions does not fail.
C5_DuplicateLabel ==
    /\ \A d \in 1..Len(definitions) :
          \A k \in 1..Len(Lines(d)) :
              (IsLabel(Lines(d)[k]) /\ DefinedEarlier(Lines(d), k))
              => (ThrownAt(d, k)
                  /\ error = DuplicateLabel(Remapped(Lines(d)[k].value)))
    /\ \A d \in Compiled :
          LET bs == compiledFunctions[d].blocks
          IN /\ bs[1].label = "init"
             /\ \A i, j \in 1..Len(bs) : bs[i].label = bs[j].label => i = j
    /\ \A l \in {"a", "b", "init", "init1"} :
          error = DuplicateLabel(l)
          => /\ pc = "thrown"
             /\ Len(Lines(fn)) > 0
             /\ IsLabel(LastOf(Lines(fn)))
             /\ DefinedEarlier(Lines(fn), Len(Lines(fn)))

C5_Witness ==
    /\ pc = "thrown"
    /\ error = DuplicateLabel("init1")
    /\ Len(Lines(fn)) = 3
    /\ Lines(fn)[1].value = "init1"
    /\ IsTerminator(Lines(fn)[2])
    /\ LastOf(Lines(fn)).value = "init"

\* The labels the branches of a statement list refer to, in statement order.
RECURSIVE Refs(_)
Refs(ls) ==
    IF Len(ls) = 0 THEN <<>>
    ELSE (IF Head(ls).type = "Branch" THEN <<Head(ls).label1, Head(ls).label2>> ELSE <<>>)
         \o Refs(Tail(ls))

DefinedLabels(ls) == {ls[k].value : k \in {j \in 1..Len(ls) : IsLabel(ls[j])}}
BlockNames(ls) == {"init"} \cup {Remapped(v) : v \in DefinedLabels(ls)}
NumLabels(ls) == Cardinality({j \in 1..Len(ls) : IsLabel(ls[j])})

\* Every successor of every block of every returned function is the label of
\* exactly one block of that function.
SuccessorsResolve ==
    \A d \in Compiled :
        LET bs == compiledFunctions[d].blocks
        IN \A b \in 1..Len(bs) :
              \A s \in 1..Len(bs[b].successors) :
                  Cardinality({k \in 1..Len(bs) : bs[k].label = bs[b].successors[s]}) = 1

\* C6 as stated: successors resolve to exactly one block, and no function is
\* returned that branches to a label defined nowhere in it.
C6_NoBranchToUndefinedLabel ==
    /\ SuccessorsResolve
    /\ \A d \in Compiled :
          \A r \in 1..Len(Refs(Lines(d))) : Refs(Lines(d))[r] \in DefinedLabels(Lines(d))

\* The end of the statement list was reached: the last block was pushed.
PostPassRan == pc = "thrown" /\ Len(blocks) = NumLabels(Lines(fn)) + 1

\* C6 amended: successors resolve to exactly one block; no function is returned
\* that branches to a label naming no block of it (the blocks are "init" and
\* the remapped label definitions); when the statements are all lowered and a
\* branch names no block, the compilation fails with DanglingLabel naming the
\* first such label, wherever in the function the other labels are defined.
C6_LabelIntegrity ==
    /\ SuccessorsResolve
    /\ \A d \in Compiled :
          \A r \in 1..Len(Refs(Lines(d))) : Refs(Lines(d))[r] \in BlockNames(Lines(d))
    /\ PostPassRan
       => LET dangling == SelectSeq(Refs(Lines(fn)),
                                    LAMBDA s : s \notin BlockNames(Lines(fn)))
          IN /\ dangling # <<>>
             /\ error = DanglingLabel(Head(dangling))
             /\ Len(compiledFunctions) = fn - 1
             /\ result = <<>>

\* A function is returned whose branch refers to a label defined after it.
C6_Witness ==
    /\ pc = "done"
    /\ Len(definitions) = 1
    /\ Len(Lines(1)) = 3
    /\ IsLabel(Lines(1)[1])
    /\ Lines(1)[2].type = "Branch"
    /\ IsLabel(Lines(1)[3])
    /\ Lines(1)[3].value = Lines(1)[2].label2

\* The destination registers of a block list, in emission order.
Dst(instruction) ==
    IF instruction[1] \in {"LOAD", "CALL"} THEN <<instruction[3]>>
    ELSE IF instruction[1] \in {"ADD", "SUB", "MUL", "DIV", "EQ"} THEN <<instruction[4]>>
    ELSE <<>>

RECURSIVE Concat(_)
Concat(seqs) == IF Len(seqs) = 0 THEN <<>> ELSE Head(seqs) \o Concat(Tail(seqs))

Instructions(bs) == Concat([b \in 1..Len(bs) |-> bs[b].instructions])
FreshRegisters(bs) ==
    LET is == Instructions(bs) IN Concat([i \in 1..Len(is) |-> Dst(is[i])])

\* regs is %n, %(n+1), %(n+2), ...
CountsFrom(regs, n) == \A k \in 1..Len(regs) : regs[k] = "%" \o ToString(n + k - 1)

\* C7: in a function of n parameters the fresh registers are %n, %(n+1), ...
\* in emission order across its blocks, whatever was compiled before it.
C7_RegisterMonotonicity ==
    /\ \A d \in Compiled :
          CountsFrom(FreshRegisters(compiledFunctions[d].blocks),
                     Len(definitions[d].inTypes))
    /\ pc = "lines"
       => /\ CountsFrom(FreshRegisters(Append(blocks, currentBlock)),
                        Len(definitions[fn].inTypes))
          /\ registerCounter
               = Len(definitions[fn].inTypes)
                   + Len(FreshRegisters(Append(blocks, currentBlock)))

C7_Witness ==
    /\ pc = "done"
    /\ Len(compiledFunctions) = 2
    /\ definitions[1].identifier = "g"
    /\ definitions[2].identifier = "f"
    /\ Len(FreshRegisters(compiledFunctions[1].blocks)) = 2
    /\ FreshRegisters(compiledFunctions[2].blocks) = <<"%1", "%2">>

\* C8: a statement list without Return and Branch yields exactly one block,
\* ending in RET '0'.
C8_DefaultReturn ==
    \A d \in Compiled :
        (\A k \in 1..Len(Lines(d)) : ~IsTerminator(Lines(d)[k]))
        => /\ Len(compiledFunctions[d].blocks) = 1
           /\ LastOf(compiledFunctions[d].blocks[1].instructions) = <<"RET", "0">>

\* The sum of the lengths of the first n constants.
RECURSIVE SumLen(_, _)
SumLen(data, n) == IF n = 0 THEN 0 ELSE SumLen(data, n - 1) + Len(data[n])

Symbol(k) == "@." \o ToString(k)

\* C9: the offset of the i-th constant is the sum of the lengths of the
\* constants before it, the memory is as long as all constants together, and
\* the byte at offset_i + j is the character code of s_i[j] modulo 256.
C9_ConstantLayout ==
    pc = "done"
    => LET data == constants.data
           pool == result[1].constants
       IN /\ DOMAIN pool.offsets = {Symbol(i - 1) : i \in 1..Len(data)}
          /\ \A i \in 1..Len(data) : pool.offsets[Symbol(i - 1)] = SumLen(data, i - 1)
          /\ Len(pool.memory) = SumLen(data, Len(data))
          /\ \A i \in 1..Len(data) :
                \A j \in 0..(Len(data[i]) - 1) :
                    pool.memory[pool.offsets[Symbol(i - 1)] + j + 1]
                        = data[i][j + 1] % 256

C9_Witness ==
    /\ pc = "done"
    /\ constants.data = <<Hi, Euro, Hi, Euro>>
    /\ result[1].constants.memory = <<104, 105, 172, 104, 105, 172>>
    /\ result[1].constants.offsets["@.3"] = 5

\* The string literals of an expression, in the order they are lowered.
RECURSIVE Literals(_)
Literals(e) ==
    IF e.type = "Expr" THEN Literals(e.value)
    ELSE IF e.type = "rvalue"
    THEN (IF e.value.type = "literal"
          THEN (IF e.value.value.type = "string" THEN <<e.value.value.value>> ELSE <<>>)
          ELSE IF e.value.type = "DerefExpr" THEN Literals(e.value.value)
          ELSE <<>>)
    ELSE IF e.type = "DerefExpr" THEN Literals(e.value)
    ELSE IF e.type = "CallExpr"
    THEN Concat([a \in 1..Len(e.args) |-> Literals(e.args[a])])
    ELSE Literals(e.op1) \o Literals(e.op2)

LineLiterals(line) ==
    CASE line.type \in {"Assignment", "PtrAssignment"} -> Literals(line.expr)
      [] line.type = "Return" -> Literals(line.value)
      [] line.type = "Branch" -> Literals(line.condition)
      [] line.type = "Write" -> Literals(line.data) \o Literals(line.length)
      [] line.type = "Expr" -> Literals(line)
      [] OTHER -> <<>>

\* The string literals of the whole program read so far, in definition order
\* then statement order.
ProgramLiterals ==
    Concat([d \in 1..Len(definitions) |->
               Concat([k \in 1..Len(Lines(d)) |-> LineLiterals(Lines(d)[k])])])

\* The constant symbols among the operands emitted so far, in emission order.
EmittedBlocks ==
    Concat([d \in 1..Len(compiledFunctions) |-> compiledFunctions[d].blocks])
        \o (IF pc = "lines" THEN Append(blocks, currentBlock) ELSE <<>>)

EmittedSymbols ==
    SelectSeq(Concat(Instructions(EmittedBlocks)),
              LAMBDA operand : \E k \in 0..Len(constants.data) : operand = Symbol(k))

\* C10: the k-th string literal lowered in the program (from 0) is stored as a
\* new constant and lowered to @.k; equal strings get distinct symbols and
\* distinct offsets, with the same bytes at both.
C10_NoDeduplication ==
    /\ pc # "thrown"
       => /\ constants.data = ProgramLiterals
          /\ constants.symbols = [k \in 1..Len(ProgramLiterals) |-> Symbol(k - 1)]
          /\ EmittedSymbols = [k \in 1..Len(ProgramLiterals) |-> Symbol(k - 1)]
    /\ pc = "done"
       => LET data == constants.data
              pool == result[1].constants
          IN \A i, j \in 1..Len(data) :
                (i # j /\ data[i] = data[j])
                => /\ constants.symbols[i] # constants.symbols[j]
                   /\ pool.offsets[constants.symbols[i]]
                        # pool.offsets[constants.symbols[j]]
                   /\ \A m \in 1..Len(data[i]) :
                         pool.memory[pool.offsets[constants.symbols[i]] + m]
                             = pool.memory[pool.offsets[constants.symbols[j]] + m]

\* "hi" is lowered in two functions: @.0 in the first, @.2 in the second.
C10_Witness ==
    /\ pc = "done"
    /\ Len(compiledFunctions) = 2
    /\ constants.data = <<Hi, Euro, Hi, Euro>>
    /\ compiledFunctions[1].blocks[1].instructions[1][2] = "@.0"
    /\ compiledFunctions[2].blocks[1].instructions[1][2] = "@.2"
    /\ result[1].constants.offsets["@.0"] = 0
    /\ result[1].constants.offsets["@.2"] = 3

----------------------------------------------------------------------------
(* compileProgram's definition table.                                       *)

\* Two definitions of the program have the same identifier.
SharedIdentifier ==
    \E d, e \in 1..Len(definitions) :
        d # e /\ definitions[d].identifier = definitions[e].identifier

DuplicateDefinitionThrown ==
    /\ pc = "thrown"
    /\ \E d \in 1..Len(definitions) :
          error = DuplicateDefinition(definitions[d].identifier)

NothingLowered ==
    /\ compiledFunctions = <<>>
    /\ \A d \in 1..Len(definitions) : Lines(d) = <<>>

\* C11: compileProgram throws "Duplicate definition" exactly when two
\* definitions share an identifier, whatever the identifiers are, and it does
\* so before any function is lowered.
C11_DuplicateExactlyWhenShared ==
    /\ DuplicateDefinitionThrown => SharedIdentifier
    /\ SharedIdentifier
       => /\ pc \in {"defMap", "thrown"}
          /\ pc = "thrown" => DuplicateDefinitionThrown
          /\ NothingLowered

----------------------------------------------------------------------------
(* Calls.                                                                   *)

IsCall(line) == line.type = "Expr" /\ line.value.type = "CallExpr"

Defined(identifier) ==
    \E d \in 1..Len(definitions) : definitions[d].identifier = identifier

\* The last statement read of the function being lowered was handed to
\* compileLine (it is not a statement after a Return or a Branch).
LastLineLowered ==
    /\ pc \in {"lines", "thrown"}
    /\ Len(compiledFunctions) = fn - 1
    /\ Len(Lines(fn)) > 0
    /\ ~IsLabel(LastOf(Lines(fn)))
    /\ ~TerminatedBefore(Lines(fn), Len(Lines(fn)))

\* C12: a call to an identifier that no definition of the program has throws
\* "Call to undefined function" naming it, for every such identifier; a call
\* to a defined function (itself, an earlier or a later one) does not throw
\* and appends CALL callee, fresh register, arguments.
C12_UndefinedExactlyWhenNotDefined ==
    (LastLineLowered /\ IsCall(LastOf(Lines(fn))))
    => LET call == LastOf(Lines(fn)).value
       IN IF Defined(call.identifier)
          THEN /\ pc = "lines"
               /\ currentBlock.instructions # <<>>
               /\ LET instruction == LastOf(currentBlock.instructions)
                  IN /\ Len(instruction) = 3 + Len(call.args)
                     /\ instruction[1] = "CALL"
                     /\ instruction[2] = call.identifier
                     /\ instruction[3] = "%" \o ToString(registerCounter - 1)
          ELSE /\ pc = "thrown"
               /\ error = UndefinedFunction(call.identifier)

----------------------------------------------------------------------------
(* Stores through an lvalue.                                                *)

Loads(instructions) ==
    Len(SelectSeq(instructions, LAMBDA instruction : instruction[1] = "LOAD"))

IsDerefStore(line) ==
    line.type \in {"Assignment", "PtrAssignment"} /\ ~IsString(line.lvalue)

\* The assignment of the other kind with the same lvalue and the same expression.
OtherAssignment(line) ==
    IF line.type = "Assignment"
    THEN PtrAssignment(line.lvalue, line.expr)
    ELSE Assignment(line.lvalue, line.expr)

\* This step hands a statement to compileLine, which returns.
LowersLine ==
    /\ pc = "lines"
    /\ pc' = "lines"
    /\ Len(definitions'[fn].lines) = Len(Lines(fn)) + 1
    /\ ~IsLabel(LastOf(definitions'[fn].lines))

\* The instructions of the block after this step's assignment and after the
\* assignment of the other kind lowered from the same state.
PtrInstructions ==
    LET line == LastOf(definitions'[fn].lines)
    IN IF line.type = "PtrAssignment"
       THEN currentBlock'.instructions
       ELSE compileLine(OtherAssignment(line), Lowering).c.block.instructions

PlainInstructions ==
    LET line == LastOf(definitions'[fn].lines)
    IN IF line.type = "Assignment"
       THEN currentBlock'.instructions
       ELSE compileLine(OtherAssignment(line), Lowering).c.block.instructions

\* C13 as stated: with the same dereferenced lvalue and the same expression, <-
\* emits one LOAD fewer than =, and both end with a STORE.
C13_PtrOneFewerLoad ==
    [][(LowersLine /\ IsDerefStore(LastOf(definitions'[fn].lines)))
       => /\ Loads(PtrInstructions) = Loads(PlainInstructions) - 1
          /\ LastOf(PtrInstructions)[1] = "STORE"
          /\ LastOf(PlainInstructions)[1] = "STORE"]_vars

\* C13: with the same dereferenced lvalue and the same expression, <- emits
\* exactly one LOAD more than =: the instructions are those of = up to its
\* STORE addr, result, then LOAD addr, fresh and STORE fresh, result.
C13_PtrOneMoreLoad ==
    [][(LowersLine /\ IsDerefStore(LastOf(definitions'[fn].lines)))
       => LET ptr == PtrInstructions
              plain == PlainInstructions
              n == Len(plain)
          IN /\ Loads(ptr) = Loads(plain) + 1
             /\ Len(ptr) = n + 1
             /\ n > Len(currentBlock.instructions)
             /\ SubSeq(ptr, 1, n - 1) = SubSeq(plain, 1, n - 1)
             /\ plain[n][1] = "STORE"
             /\ ptr[n] = <<"LOAD", plain[n][2], ptr[n + 1][2]>>
             /\ ptr[n + 1] = <<"STORE", ptr[n][3], plain[n][3]>>
             /\ \A k \in (Len(currentBlock.instructions) + 1)..(n - 1) :
                   plain[k][1] # "STORE"]_vars

\* **q = *y is lowered: LOAD y, LOAD q, STORE.
C13_Witness ==
    /\ pc = "lines"
    /\ Lines(fn) = <<Assignment(derefLvalue(derefLvalue(text("q"))),
                                Expr(DerefExpr(Name("y"))))>>
    /\ currentBlock.instructions
         = <<<<"LOAD", "y", "%0">>, <<"LOAD", "q", "%1">>, <<"STORE", "%1", "%0">>>>

----------------------------------------------------------------------------
(* Local slots.                                                             *)

RECURSIVE BaseName(_)
BaseName(lvalue) == IF IsString(lvalue) THEN lvalue.value ELSE BaseName(lvalue.value)

\* A sequence without the later occurrences of its elements.
RECURSIVE FirstUse(_)
FirstUse(names) ==
    IF Len(names) = 0 THEN <<>>
    ELSE LET front == FirstUse(SubSeq(names, 1, Len(names) - 1))
             last == names[Len(names)]
         IN IF \E k \in 1..Len(front) : front[k] = last THEN front
            ELSE Append(front, last)

IsDirectAssignment(line) == line.type = "Assignment" /\ IsString(line.lvalue)

IsStore(line) ==
    \/ line.type = "Assignment" /\ ~IsString(line.lvalue)
    \/ line.type = "PtrAssignment"

\* The base names of the lvalues of the statements that satisfy Kind, in
\* statement order.
Targets(ls, Kind(_)) ==
    LET chosen == SelectSeq(ls, Kind)
    IN [k \in 1..Len(chosen) |-> BaseName(chosen[k].lvalue)]

\* C14 as stated: a function's locals are the names assigned directly, in
\* first-use order.
C14_LocalsAreDirectTargets ==
    \A d \in Compiled :
        compiledFunctions[d].locals = FirstUse(Targets(Lines(d), IsDirectAssignment))

\* C14: a function's locals are the base names of the lvalues of its
\* dereferenced-lvalue assignments and pointer assignments, in first-use
\* order; a direct assignment to a name creates none.
C14_LocalsAreStoreTargets ==
    \A d \in Compiled :
        compiledFunctions[d].locals = FirstUse(Targets(Lines(d), IsStore))

\* *x = *y, *p <- \NUL, *x = *y: locals are x, p.
C14_Witness ==
    /\ Len(compiledFunctions) = 1
    /\ Len(Lines(1)) = 3
    /\ Targets(Lines(1), IsStore) = <<"x", "p", "x">>
    /\ compiledFunctions[1].locals = <<"x", "p">>

----------------------------------------------------------------------------
(* The Program IR.                                                          *)

\* C15: the Program IR's entryPoint is the Function IR named "main", the very
\* entry of functions, when a definition is named main, and is absent
\* otherwise; without main no error is raised (errors arise only while some
\* function is not lowered yet) and functions and constants are complete.
C15_EntryPoint ==
    /\ pc = "thrown" => Len(compiledFunctions) < Len(definitions)
    /\ pc = "done"
       => LET ir == result[1]
          IN /\ error = ""
             /\ Len(ir.functions) = Len(definitions)
             /\ \A d \in 1..Len(definitions) :
                   /\ ir.functions[d].identifier = definitions[d].identifier
                   /\ ir.functions[d] = compiledFunctions[d]
             /\ ir.constants = compile(constants)
             /\ Len(ir.constants.memory) = SumLen(constants.data, Len(constants.data))
             /\ IF Defined("main")
                THEN \E d \in 1..Len(definitions) :
                        /\ definitions[d].identifier = "main"
                        /\ ir.entryPoint = <<ir.functions[d]>>
                ELSE ir.entryPoint = <<>>

\* f and g, no main: two functions, the constants of both, no entry point.
C15_Witness ==
    /\ pc = "done"
    /\ ~Defined("main")
    /\ Len(result[1].functions) = 2
    /\ result[1].entryPoint = <<>>
    /\ Len(result[1].constants.memory) = 6

\* The constant symbols among the operands of the returned functions.
ReturnedSymbols ==
    LET all == Concat([d \in 1..Len(result[1].functions) |->
                          Instructions(result[1].functions[d].blocks)])
        operands == Concat([n \in 1..Len(all) |-> Tail(all[n])])
    IN {operands[k] : k \in 1..Len(operands)}
           \cap {Symbol(k) : k \in 0..Len(constants.data)}

\* C16: the constant pool is compiled once, when every function is lowered:
\* constants are stored only before the Program IR exists, the Program IR is
\* built once from all of them, and every symbol in a returned instruction
\* has an offset.
C16_FinalizedOnceAfterLowering ==
    /\ [](pc = "done"
            => /\ ReturnedSymbols \subseteq DOMAIN result[1].constants.offsets
               /\ DOMAIN result[1].constants.offsets
                    = {constants.symbols[k] : k \in 1..Len(constants.symbols)})
    /\ [][/\ constants' # constants => (result = <<>> /\ result' = <<>>)
          /\ result' # result
             => /\ result = <<>>
                /\ Len(compiledFunctions) = Len(definitions)
                /\ fn > Len(definitions)
                /\ constants' = constants]_vars

\* Two functions stored four constants; all four symbols are operands and
\* have offsets.
C16_Witness ==
    /\ pc = "done"
    /\ Len(compiledFunctions) = 2
    /\ ReturnedSymbols = {"@.0", "@.1", "@.2", "@.3"}
    /\ DOMAIN result[1].constants.offsets = {"@.0", "@.1", "@.2", "@.3"}

----------------------------------------------------------------------------
(* Terminators.                                                             *)

IsTerminatorInstruction(instruction) == instruction[1] \in {"RET", "BR"}

\* Every block built so far: those of the functions already compiled, those
\* closed in the function being lowered, and the open one.
AllBlocks ==
    Concat([d \in 1..Len(compiledFunctions) |-> compiledFunctions[d].blocks])
        \o blocks \o <<currentBlock>>

\* C18: in every state of the lowering and in every returned block, a RET or
\* BR is the last instruction of its block, so there is at most one and
\* nothing follows it; the open block is marked terminated exactly when it
\* ends with one.
C18_TerminatorIsLast ==
    /\ \A b \in 1..Len(AllBlocks) :
          LET instructions == AllBlocks[b].instructions
          IN \A k \in 1..Len(instructions) :
                IsTerminatorInstruction(instructions[k]) => k = Len(instructions)
    /\ pc = "lines"
       => (blockTerminated
             <=> /\ currentBlock.instructions # <<>>
                 /\ IsTerminatorInstruction(LastOf(currentBlock.instructions)))
    /\ pc = "done"
       => \A d \in 1..Len(result[1].functions) :
             \A b \in 1..Len(result[1].functions[d].blocks) :
                LET instructions == result[1].functions[d].blocks[b].instructions
                IN \A k \in 1..Len(instructions) :
                      IsTerminatorInstruction(instructions[k]) => k = Len(instructions)

\* x = add 1 2, br x a b, a: the closed block is ADD, MOV, BR.
C18_Witness ==
    /\ pc = "lines"
    /\ Len(blocks) = 1
    /\ Len(blocks[1].instructions) = 3
    /\ blocks[1].instructions[3][1] = "BR"
    /\ ~blockTerminated

----------------------------------------------------------------------------
(* Order of evaluation.                                                     *)

\* The operands lowered one after the other, first to last, each from the
\* state the one before it left.
RECURSIVE InOrder(_, _)
InOrder(operands, c) ==
    IF Len(operands) = 0 THEN [c |-> c, ret |-> <<>>]
    ELSE LET front == InOrder(SubSeq(operands, 1, Len(operands) - 1), c)
             last == compileExpr(operands[Len(operands)], front.c)
         IN [c |-> last.c, ret |-> Append(front.ret, last.ret)]

Register(k) == "%" \o ToString(k)

IsOperation(line) ==
    \/ line.type = "Write"
    \/ line.type = "Expr" /\ line.value.type \in DOMAIN instructionMap \cup {"CallExpr"}

Operands(line) ==
    IF line.type = "Write" THEN <<line.data, line.length>>
    ELSE IF line.value.type = "CallExpr" THEN line.value.args
    ELSE <<line.value.op1, line.value.op2>>

\* The operation's own instruction, given its operands' results and its
\* destination register.
Operation(line, results, destination) ==
    IF line.type = "Write" THEN <<"WRITE">> \o results
    ELSE IF line.value.type = "CallExpr"
    THEN <<"CALL", line.value.identifier, destination>> \o results
    ELSE <<instructionMap[line.value.type]>> \o results \o <<destination>>

\* C19: a statement that is a binary operation, a call or a write leaves the
\* block, the constants and the register counter as lowering its operands one
\* after the other from left to right leaves them, followed by the
\* operation's own instruction; the destination of a binary operation or a
\* call is the next register after all those issued for the operands.
C19_LeftToRight ==
    [][(LowersLine /\ IsOperation(LastOf(definitions'[fn].lines)))
       => LET line == LastOf(definitions'[fn].lines)
              operands == InOrder(Operands(line), Lowering)
              after == operands.c
          IN /\ currentBlock'.instructions
                  = Append(after.block.instructions,
                           Operation(line, operands.ret,
                                     Register(after.registerCounter)))
             /\ constants' = after.constants
             /\ registerCounter <= after.registerCounter
             /\ registerCounter'
                  = IF line.type = "Write" THEN after.registerCounter
                    ELSE after.registerCounter + 1]_vars

\* eq *a *b in main: LOAD a, LOAD b, then EQ into the register after both.
C19_Witness ==
    /\ pc = "lines"
    /\ Len(Lines(fn)) = 1
    /\ currentBlock.instructions
         = <<<<"LOAD", "a", "%0">>, <<"LOAD", "b", "%1">>,
             <<"EQ", "%0", "%1", "%2">>>>

----------------------------------------------------------------------------
(* Dereferences.                                                            *)

\* The number of nested '*' around the name or literal of an expression.
RECURSIVE Depth(_)
Depth(node) ==
    LET inner == IF node.type \in {"Expr", "rvalue"} THEN node.value ELSE node
    IN IF inner.type = "DerefExpr" THEN 1 + Depth(inner.value) ELSE 0

\* The name under the '*'s.
RECURSIVE Innermost(_)
Innermost(node) ==
    LET inner == IF node.type \in {"Expr", "rvalue"} THEN node.value ELSE node
    IN IF inner.type = "DerefExpr" THEN Innermost(inner.value) ELSE inner.value

\* LOAD name, %n; LOAD %n, %n+1; ...: d instructions from register n.
LoadChain(name, d, n) ==
    [k \in 1..d |->
        <<"LOAD", IF k = 1 THEN name ELSE Register(n + k - 2), Register(n + k - 1)>>]

\* The expression of a statement that the claim's positions name: the
\* statement itself, the right-hand side, the returned value, the condition.
Dereferenced(line) ==
    CASE line.type = "Expr" -> line
      [] line.type \in {"Assignment", "PtrAssignment"} -> line.expr
      [] line.type = "Return" -> line.value
      [] line.type = "Branch" -> line.condition
      [] OTHER -> NulLit

\* C20: a statement-level expression, a right-hand side, a returned value or
\* a branch condition that is a dereference of depth d of a name is lowered
\* to d chained LOADs into fresh registers, and the statement uses the
\* register of the outermost LOAD.
C20_OneLoadPerLevel ==
    [][(LowersLine /\ Depth(Dereferenced(LastOf(definitions'[fn].lines))) > 0)
       => LET line == LastOf(definitions'[fn].lines)
              d == Depth(Dereferenced(line))
              old == Len(currentBlock.instructions)
              new == SubSeq(currentBlock'.instructions, old + 1,
                            Len(currentBlock'.instructions))
              outermost == Register(registerCounter + d - 1)
          IN /\ Len(new) >= d
             /\ SubSeq(new, 1, d)
                  = LoadChain(Innermost(Dereferenced(line)), d, registerCounter)
             /\ line.type = "Expr" => Len(new) = d
             /\ line.type = "Return" => new = Append(SubSeq(new, 1, d),
                                                     <<"RET", outermost>>)
             /\ line.type = "Branch"
                => new = Append(SubSeq(new, 1, d),
                                <<"BR", outermost, line.label1, line.label2>>)
             /\ line.type \in {"Assignment", "PtrAssignment"}
                => LastOf(new)[3] = outermost]_vars

----------------------------------------------------------------------------
(* The block list of a function.                                            *)

\* The constants stored before definition d is lowered: the string literals
\* of the definitions before it.
ConstantsBefore(d) ==
    LET literals == Concat([e \in 1..(d - 1) |->
                               Concat([k \in 1..Len(Lines(e)) |->
                                          LineLiterals(Lines(e)[k])])])
    IN [data |-> literals, symbols |-> [k \in 1..Len(literals) |-> Symbol(k - 1)]]

\* The registers, locals and constants after the first k statements of
\* definition d, label definitions skipped.
RECURSIVE AfterStatements(_, _)
AfterStatements(d, k) ==
    IF k = 0
    THEN [block |-> Block("init"),
          registerCounter |-> Len(definitions[d].inTypes),
          locals |-> <<>>,
          constants |-> ConstantsBefore(d),
          error |-> ""]
    ELSE IF IsLabel(Lines(d)[k]) THEN AfterStatements(d, k - 1)
    ELSE compileLine(Lines(d)[k], AfterStatements(d, k - 1)).c

\* The instructions of statement k of definition d alone.
StatementInstructions(d, k) ==
    compileLine(Lines(d)[k],
                [AfterStatements(d, k - 1) EXCEPT !.block = Block("init")])
        .c.block.instructions

\* The statements of definition d after its n-th label definition and before
\* the next one (n = 0: before the first), in statement order.
Segment(d, n) ==
    LET ls == Lines(d)
    IN SelectSeq([k \in 1..Len(ls) |-> k],
                 LAMBDA k : /\ ~IsLabel(ls[k])
                            /\ Cardinality({j \in 1..k : IsLabel(ls[j])}) = n)

\* The label definitions of definition d, in statement order.
LabelValues(d) ==
    LET ls == SelectSeq(Lines(d), IsLabel)
    IN [k \in 1..Len(ls) |-> ls[k].value]

\* C21: a returned function's blocks are "init" followed by one block per
\* label definition in statement order, 1 + the number of label definitions
\* in all, and the instructions of a block are those of the statements
\* between its label definition and the next, in statement order (then
\* RET 0 in the last block when no statement terminates it).
C21_BlockList ==
    \A d \in Compiled :
        LET bs == compiledFunctions[d].blocks
            labels == LabelValues(d)
        IN /\ Len(bs) = 1 + NumLabels(Lines(d))
           /\ bs[1].label = "init"
           /\ \A n \in 1..Len(labels) : bs[n + 1].label = Remapped(labels[n])
           /\ \A n \in 0..Len(labels) :
                 LET segment == Segment(d, n)
                     own == Concat([k \in 1..Len(segment) |->
                                       StatementInstructions(d, segment[k])])
                     closed == \E k \in 1..Len(segment) :
                                  IsTerminator(Lines(d)[segment[k]])
                 IN bs[n + 1].instructions
                      = IF n = Len(labels) /\ ~closed
                        THEN Append(own, <<"RET", "0">>)
                        ELSE own

\* x = add 1 2, a:, ret 0: init holds ADD and MOV, a holds RET.
C21_Witness ==
    /\ Len(compiledFunctions) = 1
    /\ Len(Lines(1)) = 3
    /\ LabelValues(1) = <<"a">>
    /\ Len(compiledFunctions[1].blocks) = 2
    /\ Len(compiledFunctions[1].blocks[1].instructions) = 2
    /\ compiledFunctions[1].blocks[2].label = "a"
    /\ compiledFunctions[1].blocks[2].instructions = <<<<"RET", "0">>>>
    /\ IsTerminator(Lines(1)[3])

----------------------------------------------------------------------------
(* The address of a store.                                                  *)

\* The number of '*' of an lvalue.
RECURSIVE LvalueDepth(_)
LvalueDepth(lvalue) == IF IsString(lvalue) THEN 0 ELSE 1 + LvalueDepth(lvalue.value)

NoDuplicates(names) ==
    \A i, j \in 1..Len(names) : names[i] = names[j] => i = j

\* The instructions this step appended to the open block.
NewInstructions ==
    SubSeq(currentBlock'.instructions, Len(currentBlock.instructions) + 1,
           Len(currentBlock'.instructions))

\* The expression's instructions, then `loads` chained LOADs from the base
\* name of the lvalue, then STORE of the expression's result at the last
\* LOAD's register (at the base name when there is no LOAD).
StoresThrough(line, loads) ==
    LET expression == compileExpr(line.expr, [Lowering EXCEPT !.block = Block("init")])
        first == expression.c.registerCounter
        base == BaseName(line.lvalue)
        addr == IF loads = 0 THEN base ELSE Register(first + loads - 1)
    IN /\ NewInstructions
            = expression.c.block.instructions
                \o LoadChain(base, loads, first)
                \o <<<<"STORE", addr, expression.ret>>>>
       /\ registerCounter' = first + loads

LocalsSoFar ==
    pc = "lines"
    => /\ NoDuplicates(locals)
       /\ locals = FirstUse(Targets(Lines(fn), IsStore))

\* C22 as stated: a dereferenced-lvalue assignment emits one LOAD per '*' of
\* its lvalue before the STORE, and the locals are the base names of the
\* stores lowered so far, once each, in order of first encounter.
C22_OneLoadPerLevel ==
    /\ []LocalsSoFar
    /\ [][(LowersLine /\ IsStore(LastOf(definitions'[fn].lines))
             /\ LastOf(definitions'[fn].lines).type = "Assignment")
          => StoresThrough(LastOf(definitions'[fn].lines),
                           LvalueDepth(LastOf(definitions'[fn].lines).lvalue))]_vars

\* C22: a dereferenced-lvalue assignment emits one LOAD per '*' of its lvalue
\* but the outermost, a pointer assignment one LOAD per '*', before the single
\* STORE addr, result; the locals are the base names of the stores lowered so
\* far, once each, in order of first encounter.
C22_StoreAddress ==
    /\ []LocalsSoFar
    /\ [][(LowersLine /\ IsStore(LastOf(definitions'[fn].lines)))
          => LET line == LastOf(definitions'[fn].lines)
             IN StoresThrough(line,
                              IF line.type = "Assignment"
                              THEN LvalueDepth(line.lvalue) - 1
                              ELSE LvalueDepth(line.lvalue))]_vars

\* **q = *y, then *q <- 1, in main: one LOAD for each lvalue, q registered once.
C22_Witness ==
    /\ pc = "lines"
    /\ locals = <<"q">>
    /\ Targets(Lines(fn), IsStore) = <<"q", "q">>
    /\ currentBlock.instructions
         = <<<<"LOAD", "y", "%0">>, <<"LOAD", "q", "%1">>, <<"STORE", "%1", "%0">>,
             <<"LOAD", "q", "%2">>, <<"STORE", "%2", "1">>>>

----------------------------------------------------------------------------
(* Successors.                                                              *)

EndsWith(block, opcode) ==
    /\ block.instructions # <<>>
    /\ LastOf(block.instructions)[1] = opcode

SuccessorsOfBranchOnly(block) ==
    /\ block.successors # <<>> <=> EndsWith(block, "BR")
    /\ EndsWith(block, "BR")
       => block.successors = <<LastOf(block.instructions)[3],
                               LastOf(block.instructions)[4]>>
    /\ EndsWith(block, "RET") => block.successors = <<>>

\* C23: in every block built without an error, and so in every returned one,
\* the successors are non-empty exactly when the block ends with BR and are
\* then the two label operands of that BR in order; a block ending with RET
\* has none; only the lowering of a Branch changes a successor list.
C23_Successors ==
    /\ [](pc # "thrown"
            => \A b \in 1..Len(AllBlocks) : SuccessorsOfBranchOnly(AllBlocks[b]))
    /\ [](pc = "done"
            => \A d \in 1..Len(result[1].functions) :
                  \A b \in 1..Len(result[1].functions[d].blocks) :
                     SuccessorsOfBranchOnly(result[1].functions[d].blocks[b]))
    /\ [][/\ (LowersLine /\ LastOf(definitions'[fn].lines).type # "Branch")
             => currentBlock'.successors = currentBlock.successors
          /\ (LowersLine /\ LastOf(definitions'[fn].lines).type = "Branch")
             => currentBlock'.successors
                  = currentBlock.successors
                      \o <<LastOf(definitions'[fn].lines).label1,
                           LastOf(definitions'[fn].lines).label2>>
          /\ \A b \in 1..Len(blocks) :
                (Len(blocks') >= b /\ pc' = "lines") => blocks'[b] = blocks[b]]_vars

\* A returned function with two blocks: init ends with BR x a a and has the
\* successors a, a; a ends with the default RET and has none.
C23_Witness ==
    /\ pc = "done"
    /\ Len(result[1].functions[1].blocks) = 2
    /\ result[1].functions[1].blocks[1].successors = <<"a", "a">>
    /\ LastOf(result[1].functions[1].blocks[1].instructions) = <<"BR", "x", "a", "a">>
    /\ result[1].functions[1].blocks[2].successors = <<>>
    /\ result[1].functions[1].blocks[2].instructions = <<<<"RET", "0">>>>

----------------------------------------------------------------------------
(* References to "init".                                                    *)

BranchesToInit(line) ==
    line.type = "Branch" /\ "init" \in {line.label1, line.label2}

\* C24: label definitions are renamed, references are not.  A returned
\* function has one block labelled "init", the entry; a label definition
\* init gives a block init1; a Branch that names init keeps "init" in its BR
\* and in the successors of its block; and no function fails with a label
\* to the nonexistent block "init", whether it defines a label init or not.
C24_InitReference ==
    /\ ~(pc = "thrown" /\ error = DanglingLabel("init"))
    /\ \A d \in Compiled :
          LET bs == compiledFunctions[d].blocks
              ls == Lines(d)
          IN /\ \A b \in 1..Len(bs) : bs[b].label = "init" <=> b = 1
             /\ \A k \in 1..Len(ls) :
                   /\ (IsLabel(ls[k]) /\ ls[k].value = "init")
                      => bs[1 + Cardinality({j \in 1..k : IsLabel(ls[j])})].label
                           = "init1"
                   /\ BranchesToInit(ls[k])
                      => LET block == bs[1 + Cardinality({j \in 1..k : IsLabel(ls[j])})]
                             br == LastOf(block.instructions)
                         IN /\ br[1] = "BR"
                            /\ <<br[3], br[4]>> = <<ls[k].label1, ls[k].label2>>
                            /\ block.successors = <<ls[k].label1, ls[k].label2>>

\* init:, br x init init is compiled: blocks init (the entry) and init1,
\* which branches to init.
C24_Witness ==
    /\ Len(compiledFunctions) = 1
    /\ Lines(1) = <<labelDef("init"), Branch(Name("x"), "init", "init")>>
    /\ compiledFunctions[1].blocks[1] = Block("init")
    /\ compiledFunctions[1].blocks[2].label = "init1"
    /\ compiledFunctions[1].blocks[2].instructions = <<<<"BR", "x", "init", "init">>>>
    /\ compiledFunctions[1].blocks[2].successors = <<"init", "init">>

====
